---------------------------- MODULE Spec2Model ----------------------------
(***************************************************************************)
(* Model of src/tag.ts: the tag-rule parser (Parse) and the rule-set       *)
(* builder (Transform).                                                    *)
(*                                                                         *)
(* Text is modelled as a sequence of atoms.  An atom is either one of the  *)
(* three characters the code treats specially, "," (the CSV delimiter),    *)
(* "=" (the key/value separator) and " " (white space), or a word: a       *)
(* maximal run of other characters.  Input lines never hold two adjacent   *)
(* words, so two texts are equal exactly when their atom sequences are.    *)
(* Quoted CSV fields are not modelled: no input holds a quote character.   *)
(***************************************************************************)
EXTENDS Integers, Sequences, FiniteSets, TLC

VARIABLES
    lines,   \* the argument the caller passes (Transform: the inputs array; Parse: one line)
    inputs,  \* Transform's local `inputs` (reassigned when the argument is empty)
    tags,    \* Transform's `tags` array (sorted in place by Array.prototype.sort)
    idx,     \* position of the running for-of loop
    pc,      \* position in the running function
    log,     \* diagnostic channel: the core.startGroup / core.info / core.endGroup calls made
    ret,     \* the value returned to the caller (a sequence of tags), <<>> before
    err      \* the error thrown to the caller, NoError while none

vars == <<lines, inputs, tags, idx, pc, log, ret, err>>

----------------------------------------------------------------------------
(* Bounds of the model *)

\* Most fields, besides its type token, in a line given to Parse.
MaxAttrFields == 2

\* Most lines in the array given to Transform.
MaxInputs == 4

----------------------------------------------------------------------------
(* Text helpers: String.prototype.trim, toLowerCase, split, Number *)

Str(w) == <<w>>

Min(a, b) == IF a < b THEN a ELSE b

RECURSIVE TrimStart(_)
TrimStart(s) ==
    IF s # <<>> /\ Head(s) = " " THEN TrimStart(Tail(s)) ELSE s

RECURSIVE TrimEnd(_)
TrimEnd(s) ==
    IF s # <<>> /\ s[Len(s)] = " " THEN TrimEnd(SubSeq(s, 1, Len(s) - 1)) ELSE s

Trim(s) == TrimEnd(TrimStart(s))

\* The lower-case form of a word: the one upper-case word of the inputs is TYPE.
LowerWord(w) == IF w = "TYPE" THEN "type" ELSE w

ToLowerCase(s) == [i \in 1..Len(s) |-> LowerWord(s[i])]

\* The pieces of s from position i on, the running piece starting at `start`.
RECURSIVE SplitFrom(_, _, _, _)
SplitFrom(s, sep, i, start) ==
    IF i > Len(s) THEN <<SubSeq(s, start, Len(s))>>
    ELSE IF s[i] = sep
    THEN <<SubSeq(s, start, i - 1)>> \o SplitFrom(s, sep, i + 1, i + 1)
    ELSE SplitFrom(s, sep, i + 1, start)

\* s.split(sep): every piece between occurrences of sep, "" included.
Split(s, sep) == SplitFrom(s, sep, 1, 1)

\* s.split(sep, limit): the first `limit` pieces of s.split(sep); the rest is dropped.
SplitLimit(s, sep, limit) ==
    LET all == Split(s, sep) IN SubSeq(all, 1, Min(limit, Len(all)))

\* Number(text) of a trimmed text: "" is 0, a numeric word its value, anything else NaN.
NumericWords == {"0", "1", "5", "100", "200", "600", "700", "800", "900", "1000"}

WordValue(w) ==
    CASE w = "0" -> 0 [] w = "1" -> 1 [] w = "5" -> 5
      [] w = "100" -> 100 [] w = "200" -> 200 [] w = "600" -> 600
      [] w = "700" -> 700 [] w = "800" -> 800 [] w = "900" -> 900
      [] w = "1000" -> 1000 [] OTHER -> 0

IsNaN(s) ==
    LET t == Trim(s) IN ~(t = <<>> \/ (Len(t) = 1 /\ t[1] \in NumericWords))

\* The value of Number(s) when it is not NaN.
Number(s) ==
    LET t == Trim(s) IN IF Len(t) = 1 THEN WordValue(t[1]) ELSE 0

----------------------------------------------------------------------------
(* Enumerations and tables *)

Type == {Str("schedule"), Str("semver"), Str("match"), Str("edge"),
         Str("ref"), Str("raw"), Str("sha")}

RefEvent == {Str("branch"), Str("tag"), Str("pr")}

ShaFormat == {Str("short"), Str("long")}

DefaultPriorities(type) ==
    CASE type = Str("schedule") -> Str("1000")
      [] type = Str("semver") -> Str("900")
      [] type = Str("match") -> Str("800")
      [] type = Str("edge") -> Str("700")
      [] type = Str("ref") -> Str("600")
      [] type = Str("raw") -> Str("200")
      [] type = Str("sha") -> Str("100")

----------------------------------------------------------------------------
(* class Tag, and the two ways Parse ends *)

\* tag.type before any assignment (a text no input line can hold).
Undefined == Str("<undefined>")

\* new Tag()
Tag == [type |-> Undefined, attrs |-> <<>>]

NoError == [msg |-> "", arg |-> <<>>]

Return(tag) == [ok |-> TRUE, tag |-> tag, error |-> NoError]

Throw(msg, arg) == [ok |-> FALSE, tag |-> Tag, error |-> [msg |-> msg, arg |-> arg]]

\* tag.attrs is a sequence of <<key, value>> pairs in insertion order, the
\* order in which a JavaScript object keeps its (non-index) string keys.
HasOwnProperty(attrs, key) == \E i \in 1..Len(attrs) : attrs[i][1] = key

\* attrs[key], read where the key is present
Get(attrs, key) == attrs[CHOOSE i \in 1..Len(attrs) : attrs[i][1] = key][2]

\* attrs[key] = value: an existing key keeps its place, a new one goes last
SetAttr(attrs, key, value) ==
    IF HasOwnProperty(attrs, key)
    THEN [i \in 1..Len(attrs) |-> IF attrs[i][1] = key THEN <<key, value>> ELSE attrs[i]]
    ELSE Append(attrs, <<key, value>>)

\* if (!attrs.hasOwnProperty(key)) attrs[key] = value
SetDefault(tag, key, value) ==
    IF HasOwnProperty(tag.attrs, key)
    THEN tag
    ELSE [tag EXCEPT !.attrs = SetAttr(@, key, value)]

----------------------------------------------------------------------------
(* Parse *)

\* csvparse(s, {relaxColumnCount: true, skipLinesWithEmptyValues: true}): the
\* records of the one-line text s.  The line is cut at every delimiter, empty
\* fields included; skipLinesWithEmptyValues drops a record only when every
\* one of its fields is empty or white space, and then no record is left.
csvparse(s) ==
    LET record == Split(s, ",")
    IN  IF \A i \in 1..Len(record) : Trim(record[i]) = <<>>
        THEN <<>>
        ELSE <<record>>

\* The for-of loop over the fields, from field i on.
RECURSIVE ParseFields(_, _, _)
ParseFields(fields, i, tag) ==
    IF i > Len(fields)
    THEN Return(tag)
    ELSE LET parts == SplitLimit(fields[i], "=", 2)
         IN  IF Len(parts) = 1
             THEN ParseFields(fields, i + 1,
                      [tag EXCEPT !.attrs = SetAttr(@, Str("value"), Trim(parts[1]))])
             ELSE LET key == ToLowerCase(Trim(parts[1]))
                      value == Trim(parts[2])
                  IN  IF key = Str("type")
                      THEN IF value \notin Type
                           THEN Throw("Unknown tag type attribute: ", value)
                           ELSE ParseFields(fields, i + 1, [tag EXCEPT !.type = value])
                      ELSE ParseFields(fields, i + 1,
                               [tag EXCEPT !.attrs = SetAttr(@, key, value)])

\* Tokenization and the field loop: the tag with the line's explicit type and
\* attributes.  With no record, `fields` is undefined and the for-of throws.
Collect(s) ==
    LET records == csvparse(s)
    IN  IF Len(records) = 0
        THEN Throw("TypeError: fields is not iterable", <<>>)
        ELSE ParseFields(records[1], 1, Tag)

\* if (tag.type == undefined) tag.type = Type.Raw
DefaultType(tag) ==
    IF tag.type = Undefined THEN [tag EXCEPT !.type = Str("raw")] ELSE tag

\* case Type.Schedule
CaseSchedule(tag, s) ==
    Return(SetDefault(tag, Str("pattern"), Str("nightly")))

\* case Type.Semver
CaseSemver(tag, s) ==
    IF ~HasOwnProperty(tag.attrs, Str("pattern"))
    THEN Throw("Missing pattern attribute for ", s)
    ELSE Return(SetDefault(tag, Str("value"), <<>>))

\* CaseMatch without the isNaN check of the group
CaseMatchNoGroupCheck(tag, s) ==
    IF ~HasOwnProperty(tag.attrs, Str("pattern"))
    THEN Throw("Missing pattern attribute for ", s)
    ELSE Return(SetDefault(SetDefault(tag, Str("group"), Str("0")), Str("value"), <<>>))

\* case Type.Match
CaseMatch(tag, s) ==
    IF ~HasOwnProperty(tag.attrs, Str("pattern"))
    THEN Throw("Missing pattern attribute for ", s)
    ELSE LET g == SetDefault(tag, Str("group"), Str("0"))
         IN  IF IsNaN(Get(g.attrs, Str("group")))
             THEN Throw("Invalid match group for ", s)
             ELSE Return(SetDefault(g, Str("value"), <<>>))

\* case Type.Edge
CaseEdge(tag, s) ==
    Return(SetDefault(tag, Str("branch"), <<>>))

\* case Type.Ref
CaseRef(tag, s) ==
    IF ~HasOwnProperty(tag.attrs, Str("event"))
    THEN Throw("Missing event attribute for ", s)
    ELSE IF Get(tag.attrs, Str("event")) \notin RefEvent
    THEN Throw("Invalid event for ", s)
    ELSE IF Get(tag.attrs, Str("event")) = Str("pr")
    THEN Return(SetDefault(tag, Str("prefix"), Str("pr-")))
    ELSE Return(tag)

\* case Type.Raw
CaseRaw(tag, s) ==
    IF ~HasOwnProperty(tag.attrs, Str("value"))
    THEN Throw("Missing value attribute for ", s)
    ELSE Return(tag)

\* CaseSha with the prefix assigned whether or not the line gave one
CaseShaOverwritePrefix(tag, s) ==
    LET f == SetDefault([tag EXCEPT !.attrs = SetAttr(@, Str("prefix"), Str("sha-"))],
                        Str("format"), Str("short"))
    IN  IF Get(f.attrs, Str("format")) \notin ShaFormat
        THEN Throw("Invalid format for ", s)
        ELSE Return(f)

\* case Type.Sha
CaseSha(tag, s) ==
    LET f == SetDefault(SetDefault(tag, Str("prefix"), Str("sha-")),
                        Str("format"), Str("short"))
    IN  IF Get(f.attrs, Str("format")) \notin ShaFormat
        THEN Throw("Invalid format for ", s)
        ELSE Return(f)

\* switch (tag.type): the kind's required attributes, defaults and validation.
KindSpecific(tag, s) ==
    CASE tag.type = Str("schedule") -> CaseSchedule(tag, s)
      [] tag.type = Str("semver") -> CaseSemver(tag, s)
      [] tag.type = Str("match") -> CaseMatch(tag, s)
      [] tag.type = Str("edge") -> CaseEdge(tag, s)
      [] tag.type = Str("ref") -> CaseRef(tag, s)
      [] tag.type = Str("raw") -> CaseRaw(tag, s)
      [] tag.type = Str("sha") -> CaseSha(tag, s)

\* Universal without the validation of enable
UniversalNoEnableCheck(tag) ==
    Return(SetDefault(SetDefault(tag, Str("enable"), Str("true")),
                      Str("priority"), DefaultPriorities(tag.type)))

\* The defaults and the validation every kind shares: enable, priority.
Universal(tag) ==
    LET d == SetDefault(SetDefault(tag, Str("enable"), Str("true")),
                        Str("priority"), DefaultPriorities(tag.type))
    IN  IF Get(d.attrs, Str("enable")) \notin {Str("true"), Str("false")}
        THEN Throw("Invalid value for enable attribute: ", Get(d.attrs, Str("enable")))
        ELSE Return(d)

Parse(s) ==
    LET c == Collect(s)
    IN  IF ~c.ok
        THEN c
        ELSE LET k == KindSpecific(DefaultType(c.tag), s)
             IN  IF ~k.ok THEN k ELSE Universal(k.tag)

----------------------------------------------------------------------------
(* Transform *)

\* Tag.toString(): type=<type>, then ,<attr>=<value> for each attribute in order
RECURSIVE AttrsToString(_)
AttrsToString(attrs) ==
    IF attrs = <<>>
    THEN <<>>
    ELSE <<",">> \o attrs[1][1] \o <<"=">> \o attrs[1][2] \o AttrsToString(Tail(attrs))

toString(tag) == <<"type", "=">> \o tag.type \o AttrsToString(tag.attrs)

\* The built-in inputs that replace an empty argument.
DefaultInputs ==
    << <<"type", "=", "schedule">>,
       <<"type", "=", "ref", ",", "event", "=", "branch">>,
       <<"type", "=", "ref", ",", "event", "=", "tag">>,
       <<"type", "=", "ref", ",", "event", "=", "pr">> >>

Priority(tag) == Get(tag.attrs, Str("priority"))

\* Compare with the two results exchanged: an ascending order
CompareAscending(tag1, tag2) ==
    LET p1 == Priority(tag1)
        p2 == Priority(tag2)
        bothNumbers == ~IsNaN(p1) /\ ~IsNaN(p2)
    IN  IF bothNumbers /\ Number(p1) < Number(p2) THEN -1
        ELSE IF bothNumbers /\ Number(p1) > Number(p2) THEN 1
        ELSE 0

\* The comparator given to tags.sort: every comparison with NaN is false.
Compare(tag1, tag2) ==
    LET p1 == Priority(tag1)
        p2 == Priority(tag2)
        bothNumbers == ~IsNaN(p1) /\ ~IsNaN(p2)
    IN  IF bothNumbers /\ Number(p1) < Number(p2) THEN 1
        ELSE IF bothNumbers /\ Number(p1) > Number(p2) THEN -1
        ELSE 0

\* Whether Compare is a consistent comparator for the elements of a
\* (ECMAScript, Array.prototype.sort): only then is the sorted order defined.
ConsistentComparator(a) ==
    LET c == [i \in 1..Len(a) |-> [j \in 1..Len(a) |-> Compare(a[i], a[j])]]
    IN  \A i, j, k \in 1..Len(a) :
            /\ (c[i][j] = 0 /\ c[j][k] = 0) => c[i][k] = 0
            /\ (c[i][j] < 0 /\ c[j][k] < 0) => c[i][k] < 0
            /\ (c[i][j] > 0 /\ c[j][k] > 0) => c[i][k] > 0
            /\ (c[i][j] < 0) <=> (c[j][i] > 0)

\* x put into the sorted sequence s behind every element that does not sort after it
RECURSIVE Insert(_, _)
Insert(s, x) ==
    IF s = <<>> THEN <<x>>
    ELSE IF Compare(s[Len(s)], x) <= 0 THEN Append(s, x)
    ELSE Append(Insert(SubSeq(s, 1, Len(s) - 1), x), s[Len(s)])

\* The stable sort of a under Compare (Array.prototype.sort is stable).
RECURSIVE StableSort(_)
StableSort(a) ==
    IF a = <<>> THEN <<>>
    ELSE Insert(StableSort(SubSeq(a, 1, Len(a) - 1)), a[Len(a)])

\* The sequences that hold the elements of a in some order.
Reorderings(a) ==
    { [i \in 1..Len(a) |-> a[p[i]]] :
          p \in { f \in [1..Len(a) -> 1..Len(a)] :
                      \A i \in 1..Len(a) : \E j \in 1..Len(a) : f[j] = i } }

\* The orders tags.sort(Compare) can leave the array in: the stable sort when
\* the comparator is consistent, an implementation-defined order otherwise.
SortOutcomes(a) ==
    IF ConsistentComparator(a) THEN {StableSort(a)} ELSE Reorderings(a)

----------------------------------------------------------------------------
(* Inputs *)

RECURSIVE Join(_)
Join(fs) ==
    IF fs = <<>> THEN <<>>
    ELSE IF Len(fs) = 1 THEN fs[1]
    ELSE fs[1] \o <<",">> \o Join(Tail(fs))

KV(k, v) == <<k, "=", v>>

\* The type tokens a line given to Parse can hold.
TypeFields ==
    { KV("type", w) : w \in {"schedule", "semver", "match", "edge", "ref",
                              "raw", "sha", "bogus"} }
    \cup { <<" ", "TYPE", " ", "=", " ", "sha", " ">> }

\* The other fields a line given to Parse is made of.
AttrFields ==
    { <<>>, <<"foo">>,
      <<"pattern", "=", "a", "=", "b">>,
      KV("group", "1"), KV("group", "abc"),
      KV("event", "pr"), KV("event", "branch"), KV("event", "bogus"),
      KV("prefix", "x"),
      KV("format", "long"), KV("format", "huge"),
      KV("enable", "false"), KV("enable", "maybe"),
      KV("priority", "5"), KV("priority", "abc"),
      KV("branch", "main") }

\* fs with the field f put behind its first p fields
InsertAt(fs, p, f) == SubSeq(fs, 1, p) \o <<f>> \o SubSeq(fs, p + 1, Len(fs))

\* The lines an array given to Transform is made of.
TransformLines ==
    { <<"type", "=", "semver", ",", "pattern", "=", "p">>,
      <<"foo", ",", "priority", "=", "900">>,
      <<"type", "=", "sha">>,
      <<"bar", ",", "priority", "=", "abc">>,
      <<"type", "=", "ref">>,
      <<"type", "=", "bogus">> }

TransformInputs == UNION { [1..n -> TransformLines] : n \in 0..MaxInputs }

----------------------------------------------------------------------------
(* A call of Parse *)

\* The line given to Parse has up to MaxAttrFields fields and, at any place
\* among them, at most one type token.
InitParse ==
    /\ \E n \in 0..MaxAttrFields :
           \E fs \in [1..n -> AttrFields] :
               \/ lines = <<Join(fs)>>
               \/ \E p \in 0..n, f \in TypeFields :
                      lines = <<Join(InsertAt(fs, p, f))>>
    /\ inputs = <<>>
    /\ tags = <<>>
    /\ idx = 1
    /\ pc = "Parse"
    /\ log = <<>>
    /\ ret = <<>>
    /\ err = NoError

ParseCall ==
    /\ pc = "Parse"
    /\ LET r == Parse(lines[1])
       IN  IF r.ok
           THEN /\ ret' = <<r.tag>>
                /\ err' = err
                /\ pc' = "returned"
           ELSE /\ err' = r.error
                /\ ret' = ret
                /\ pc' = "thrown"
    /\ UNCHANGED <<lines, inputs, tags, idx, log>>

NextParse == ParseCall

SpecParse == InitParse /\ [][NextParse]_vars

----------------------------------------------------------------------------
(* A call of Transform *)

Init ==
    /\ lines \in TransformInputs
    /\ inputs = <<>>
    /\ tags = <<>>
    /\ idx = 1
    /\ pc = "Transform"
    /\ log = <<>>
    /\ ret = <<>>
    /\ err = NoError

\* const tags = []; if (inputs.length == 0) inputs = [...]
TransformBegin ==
    /\ pc = "Transform"
    /\ inputs' = IF Len(lines) = 0 THEN DefaultInputs ELSE lines
    /\ tags' = <<>>
    /\ idx' = 1
    /\ pc' = "parse"
    /\ UNCHANGED <<lines, log, ret, err>>

\* TransformParse that skips a line that fails to parse and goes on
TransformParseSkipFailed ==
    /\ pc = "parse"
    /\ idx <= Len(inputs)
    /\ LET r == Parse(inputs[idx])
       IN  tags' = IF r.ok THEN Append(tags, r.tag) ELSE tags
    /\ idx' = idx + 1
    /\ UNCHANGED <<lines, inputs, pc, log, ret, err>>

\* for (const input of inputs) tags.push(Parse(input)): one iteration
TransformParse ==
    /\ pc = "parse"
    /\ idx <= Len(inputs)
    /\ LET r == Parse(inputs[idx])
       IN  IF r.ok
           THEN /\ tags' = Append(tags, r.tag)
                /\ idx' = idx + 1
                /\ UNCHANGED <<pc, err>>
           ELSE /\ err' = r.error
                /\ pc' = "thrown"
                /\ UNCHANGED <<tags, idx>>
    /\ UNCHANGED <<lines, inputs, log, ret>>

\* const sorted = tags.sort(...), in place
TransformSort ==
    /\ pc = "parse"
    /\ idx > Len(inputs)
    /\ \E s \in SortOutcomes(tags) : tags' = s
    /\ pc' = "startGroup"
    /\ UNCHANGED <<lines, inputs, idx, log, ret, err>>

\* core.startGroup(...); for (const tag of sorted) core.info(tag.toString());
\* core.endGroup()
TransformTrace ==
    /\ pc = "startGroup"
    /\ log' = <<[call |-> "startGroup", text |-> <<"Processing tags input">>]>>
              \o [k \in 1..Len(tags) |-> [call |-> "info", text |-> toString(tags[k])]]
              \o <<[call |-> "endGroup", text |-> <<>>]>>
    /\ pc' = "return"
    /\ UNCHANGED <<lines, inputs, tags, idx, ret, err>>

\* return sorted
TransformReturn ==
    /\ pc = "return"
    /\ ret' = tags
    /\ pc' = "returned"
    /\ UNCHANGED <<lines, inputs, tags, idx, log, err>>

Next ==
    \/ TransformBegin
    \/ TransformParse
    \/ TransformSort
    \/ TransformTrace
    \/ TransformReturn

Spec == Init /\ [][Next]_vars

----------------------------------------------------------------------------
(* What a line says, read off its text: used to state the properties *)

\* The line given to Parse.
Line == lines[1]

\* A field as a token: the attribute it names (the text before its "=", or
\* value when it has none) and the value Parse stores for it.
Token(f) ==
    LET parts == SplitLimit(f, "=", 2)
    IN  IF Len(parts) = 1
        THEN [key |-> Str("value"), value |-> Trim(parts[1]), text |-> f]
        ELSE [key |-> ToLowerCase(Trim(parts[1])), value |-> Trim(parts[2]), text |-> f]

\* The tokens of a line, one per comma-separated field.
Tokens(s) ==
    LET fs == Split(s, ",") IN [i \in 1..Len(fs) |-> Token(fs[i])]

\* The line (its tokens tk) has a field for the attribute.
Supplies(tk, key) == \E i \in 1..Len(tk) : tk[i].key = key

\* The last field of the line for the attribute.
LastFieldFor(tk, key) ==
    CHOOSE i \in 1..Len(tk) :
        tk[i].key = key /\ \A j \in (i + 1)..Len(tk) : tk[j].key # key

\* The value of the line's last field for the attribute.
Supplied(tk, key) == tk[LastFieldFor(tk, key)].value

\* Every type token of the line names a kind.
AllTypesKnown(tk) ==
    \A i \in 1..Len(tk) : tk[i].key = Str("type") => tk[i].value \in Type

\* The kind of a line whose type tokens all name a kind.
LineKind(tk) ==
    IF Supplies(tk, Str("type")) THEN Supplied(tk, Str("type")) ELSE Str("raw")

\* The messages of the kind requirements the line violates.
LineViolations(tk) ==
    LET K == LineKind(tk)
        has(k) == Supplies(tk, Str(k))
        val(k) == Supplied(tk, Str(k))
    IN  { m \in { "Missing pattern attribute for ", "Invalid match group for ",
                  "Missing event attribute for ", "Invalid event for ",
                  "Missing value attribute for ", "Invalid format for " } :
            \/ /\ m = "Missing pattern attribute for "
               /\ K \in {Str("semver"), Str("match")}
               /\ ~has("pattern")
            \/ /\ m = "Invalid match group for "
               /\ K = Str("match")
               /\ has("group")
               /\ IsNaN(val("group"))
            \/ /\ m = "Missing event attribute for "
               /\ K = Str("ref")
               /\ ~has("event")
            \/ /\ m = "Invalid event for "
               /\ K = Str("ref")
               /\ has("event")
               /\ val("event") \notin RefEvent
            \/ /\ m = "Missing value attribute for "
               /\ K = Str("raw")
               /\ ~has("value")
            \/ /\ m = "Invalid format for "
               /\ K = Str("sha")
               /\ has("format")
               /\ val("format") \notin ShaFormat }

Attr(tag, k) == Get(tag.attrs, Str(k))

HasAttr(tag, k) == HasOwnProperty(tag.attrs, Str(k))

EnableValues == {Str("true"), Str("false")}

\* The line gives enable a value that is neither true nor false.
BadEnable(tk) ==
    Supplies(tk, Str("enable")) /\ Supplied(tk, Str("enable")) \notin EnableValues

EnableError(v) == [msg |-> "Invalid value for enable attribute: ", arg |-> v]

----------------------------------------------------------------------------
(* Properties of Parse, under SpecParse *)

\* A returned rule has a kind of the enumeration, raw when the line has no
\* type token, and an enable attribute that is true or false.
RuleKindAndEnable ==
    pc = "returned" =>
        /\ ret[1].type \in Type
        /\ (~Supplies(Tokens(Line), Str("type")) => ret[1].type = Str("raw"))
        /\ HasAttr(ret[1], "enable")
        /\ Attr(ret[1], "enable") \in EnableValues

\* C1, as stated: every rule Parse returns has a kind of the enumeration (raw
\* when the line has no type token) and enable true or false; and every line
\* whose enable value is anything else makes Parse fail with
\* `Invalid value for enable attribute: <value>`.
C1_AsStated ==
    LET tk == Tokens(Line)
    IN  /\ RuleKindAndEnable
        /\ (pc # "Parse" /\ BadEnable(tk)) =>
               /\ pc = "thrown"
               /\ err = EnableError(Supplied(tk, Str("enable")))

\* C1, amended: every rule Parse returns has a kind of the enumeration (raw
\* when the line has no type token) and enable true or false; a line whose
\* enable value is anything else never yields a rule, and Parse fails with
\* `Invalid value for enable attribute: <value>` unless an earlier check fails
\* first (an unknown type, or a missing or invalid attribute of the kind).
C1_EnableValidated ==
    LET tk == Tokens(Line)
    IN  /\ RuleKindAndEnable
        /\ (pc # "Parse" /\ BadEnable(tk)) =>
               /\ pc = "thrown"
               /\ (AllTypesKnown(tk) /\ LineViolations(tk) = {}) =>
                      err = EnableError(Supplied(tk, Str("enable")))

\* C1 witness: a line with a type token and a bad enable value was parsed, and
\* Parse threw the enable error.
C1_Witness ==
    /\ pc = "thrown"
    /\ BadEnable(Tokens(Line))
    /\ Supplies(Tokens(Line), Str("type"))
    /\ err.msg = "Invalid value for enable attribute: "

\* C2, as stated: every rule Parse returns has a priority attribute that is
\* numeric text, whether or not the line supplied one, and that is the kind's
\* entry of the default-priority table when the line supplies none.
C2_PriorityNumeric ==
    pc = "returned" =>
        /\ HasAttr(ret[1], "priority")
        /\ ~IsNaN(Attr(ret[1], "priority"))
        /\ (~Supplies(Tokens(Line), Str("priority")) =>
                Attr(ret[1], "priority") = DefaultPriorities(ret[1].type))

\* The rule satisfies the requirements of its kind.
Satisfies(tag) ==
    /\ tag.type \in {Str("semver"), Str("match")} => HasAttr(tag, "pattern")
    /\ tag.type = Str("match") => HasAttr(tag, "group") /\ ~IsNaN(Attr(tag, "group"))
    /\ tag.type = Str("ref") => HasAttr(tag, "event") /\ Attr(tag, "event") \in RefEvent
    /\ tag.type = Str("raw") => HasAttr(tag, "value")
    /\ tag.type = Str("sha") => HasAttr(tag, "format") /\ Attr(tag, "format") \in ShaFormat

\* C3: every rule Parse returns satisfies the requirements of its kind, and a
\* line that violates one of them makes Parse fail, naming the line, with the
\* message of a requirement it violates.
C3_NoPartialRule ==
    LET tk == Tokens(Line)
    IN  /\ pc = "returned" => Satisfies(ret[1])
        /\ (pc # "Parse" /\ AllTypesKnown(tk) /\ LineViolations(tk) # {}) =>
               /\ pc = "thrown"
               /\ err.msg \in LineViolations(tk)
               /\ err.arg = Line

\* C3 witness: a match line with a pattern and a group that is no number was
\* parsed and Parse threw the invalid-group error.
C3_Witness ==
    /\ pc = "thrown"
    /\ LineKind(Tokens(Line)) = Str("match")
    /\ Supplies(Tokens(Line), Str("pattern"))
    /\ err = [msg |-> "Invalid match group for ", arg |-> Line]

\* The defaults of each kind: <<kind, attribute, default value>>.
KindDefaults ==
    { <<Str("schedule"), Str("pattern"), Str("nightly")>>,
      <<Str("semver"), Str("value"), <<>>>>,
      <<Str("match"), Str("group"), Str("0")>>,
      <<Str("match"), Str("value"), <<>>>>,
      <<Str("edge"), Str("branch"), <<>>>>,
      <<Str("sha"), Str("prefix"), Str("sha-")>>,
      <<Str("sha"), Str("format"), Str("short")>> }

\* C4: in a returned rule each attribute its kind defaults holds the value the
\* line supplies, and the default exactly when the line supplies none,
\* wherever the type token is; a ref rule gets prefix "pr-" only when its
\* event is pr and the line has no prefix, and no prefix for branch or tag.
C4_DefaultsWhenAbsent ==
    LET tk == Tokens(Line)
    IN  pc = "returned" =>
            /\ \A d \in KindDefaults :
                   ret[1].type = d[1] =>
                       /\ HasOwnProperty(ret[1].attrs, d[2])
                       /\ Get(ret[1].attrs, d[2]) =
                              IF Supplies(tk, d[2]) THEN Supplied(tk, d[2]) ELSE d[3]
            /\ ret[1].type = Str("ref") =>
                   IF Supplies(tk, Str("prefix"))
                   THEN Attr(ret[1], "prefix") = Supplied(tk, Str("prefix"))
                   ELSE IF Attr(ret[1], "event") = Str("pr")
                   THEN HasAttr(ret[1], "prefix") /\ Attr(ret[1], "prefix") = Str("pr-")
                   ELSE ~HasAttr(ret[1], "prefix")

\* C4 witness: a sha rule was returned for a line that gives a prefix and no
\* format and whose type token is not its first field.
C4_Witness ==
    /\ pc = "returned"
    /\ ret[1].type = Str("sha")
    /\ Supplies(Tokens(Line), Str("prefix"))
    /\ ~Supplies(Tokens(Line), Str("format"))
    /\ Tokens(Line)[1].key # Str("type")
    /\ Attr(ret[1], "prefix") = Str("x")
    /\ Attr(ret[1], "format") = Str("short")

\* The text of a field after its first "=".
AfterFirstEquals(f) ==
    LET i == CHOOSE k \in 1..Len(f) : f[k] = "=" /\ \A j \in 1..(k - 1) : f[j] # "="
    IN  SubSeq(f, i + 1, Len(f))

\* C9, as stated: for a field with one or more "=", the value stored under its
\* key is the whole trimmed text after the first "=", further "=" included.
C9_SplitOnFirstEquals ==
    LET tk == Tokens(Line)
    IN  pc = "returned" =>
            \A i \in 1..Len(tk) :
                (/\ \E k \in 1..Len(tk[i].text) : tk[i].text[k] = "="
                 /\ tk[i].key # Str("type")
                 /\ i = LastFieldFor(tk, tk[i].key))
                => Get(ret[1].attrs, tk[i].key) = Trim(AfterFirstEquals(tk[i].text))

\* The fields that are neither empty nor white space.
NonBlank(fs) == SelectSeq(fs, LAMBDA f : Trim(f) # <<>>)

\* C10, as stated: empty or blank fields produce no token, so Parse ends as it
\* does for the line without them: the same rule, or the same kind of error.
C10_EmptyFieldsIgnored ==
    LET q == Parse(Join(NonBlank(Split(Line, ","))))
    IN  /\ pc = "returned" => q.ok /\ q.tag = ret[1]
        /\ pc = "thrown" => ~q.ok /\ q.error.msg = err.msg

----------------------------------------------------------------------------
(* Properties of Transform, under Spec *)

\* What Parse makes of each line of the sequence.
ParseAll(ls) == [i \in 1..Len(ls) |-> Parse(ls[i])]

\* The one-to-one maps from the positions of a sequence onto themselves.
Bijections(n) ==
    { f \in [1..n -> 1..n] : \A i, j \in 1..n : f[i] = f[j] => i = j }

\* Both priorities are numbers and the first is at least the second.
NumericGeq(p, q) == ~IsNaN(p) /\ ~IsNaN(q) /\ Number(p) >= Number(q)

\* Both priorities are numbers and they are equal.
NumericEqual(p, q) == ~IsNaN(p) /\ ~IsNaN(q) /\ Number(p) = Number(q)

\* C5, as stated: for a (non-empty) input whose lines all parse, Transform
\* returns exactly the parsed rules, one per line, and the numeric priority of
\* each returned rule is at least that of the rule after it.
C5_SortedByPriority ==
    (pc = "returned" /\ lines # <<>>) =>
        LET parsed == ParseAll(lines)
        IN  /\ \E f \in Bijections(Len(lines)) :
                   ret = [i \in 1..Len(lines) |-> parsed[f[i]].tag]
            /\ \A i \in 1..(Len(ret) - 1) :
                   NumericGeq(Priority(ret[i]), Priority(ret[i + 1]))

C7_DefaultSet ==
    /\ (pc = "returned" /\ lines = <<>>) =>
           /\ Len(ret) = 4
           /\ ret[1].type = Str("schedule")
           /\ Attr(ret[1], "pattern") = Str("nightly")
           /\ Attr(ret[1], "priority") = Str("1000")
           /\ Len(ret[1].attrs) = 3
           /\ \A i \in 2..4 :
                  /\ ret[i].type = Str("ref")
                  /\ Attr(ret[i], "priority") = Str("600")
           /\ Attr(ret[2], "event") = Str("branch")
           /\ Attr(ret[3], "event") = Str("tag")
           /\ Attr(ret[4], "event") = Str("pr")
           /\ Attr(ret[4], "prefix") = Str("pr-")
           /\ Len(ret[2].attrs) = 3 /\ Len(ret[3].attrs) = 3 /\ Len(ret[4].attrs) = 4
           /\ \A i \in 1..4 : Attr(ret[i], "enable") = Str("true")
    /\ (pc # "Transform" /\ lines # <<>>) => inputs = lines
    /\ (pc = "returned" /\ lines # <<>>) => Len(ret) = Len(lines)

\* C7 witness: Transform returned for an empty input.
C7_Witness ==
    /\ pc = "returned"
    /\ lines = <<>>
    /\ Len(ret) = 4
    /\ Len(log) = 6

\* C8: when a line fails to parse, Transform throws the error of the first
\* failing line, never returns a rule and never writes to the trace, and no
\* line after the first failing one is parsed; the trace is written only once
\* every line is parsed and the rules are sorted, one line per rule in the
\* order of the sorted array.
C8_FailsAtomically ==
    LET parsed == ParseAll(lines)
        failing == { k \in 1..Len(lines) : ~parsed[k].ok }
        first == CHOOSE k \in failing : \A j \in failing : k <= j
    IN  /\ failing # {} =>
               /\ ret = <<>>
               /\ log = <<>>
               /\ pc \in {"Transform", "parse", "thrown"}
               /\ idx <= first
               /\ Len(tags) < first
               /\ pc = "thrown" => (idx = first /\ err = parsed[first].error)
        /\ log # <<>> =>
               /\ pc \in {"return", "returned"}
               /\ Len(tags) = Len(inputs)
               /\ Len(log) = Len(tags) + 2
               /\ \A k \in 1..Len(tags) :
                      log[k + 1] = [call |-> "info", text |-> toString(tags[k])]
        /\ pc = "thrown" => failing # {}

\* C8 witness: Transform threw at a line that follows a parsed line and is
\* followed by a line that fails with another error.
C8_Witness ==
    /\ pc = "thrown"
    /\ idx = 2
    /\ Len(lines) = 3
    /\ Len(tags) = 1
    /\ ~Parse(lines[3]).ok
    /\ Parse(lines[3]).error.msg # err.msg

============================================================================
